---- MODULE Spec2Model ----
(***************************************************************************)
(* EPOCH (civilware/epoch): the GetWork connection, the bounded-concurrency *)
(* dispatcher (AttemptHashes / SubmitHashes), the session totals and the    *)
(* processing flag of package epoch, as a state machine.                    *)
(*                                                                          *)
(* Every goroutine of the package is a process: callers of StartGetWork,    *)
(* callers of StopGetWork, the read-loops started by StartGetWork, callers  *)
(* of AttemptHashes/SubmitHashes and the tasks they launch.  A step is one  *)
(* access to shared memory (or one blocking operation); the fields the code *)
(* reads and writes without a lock (epoch.conn.ws, epoch.session,           *)
(* epoch.semaphore, result.Error, result.Submitted, i) are read and written *)
(* in separate steps, so that every interleaving the Go scheduler can       *)
(* produce is a behaviour of the model.  A nil-pointer dereference of       *)
(* epoch.conn.ws ends the program (panicked).                               *)
(***************************************************************************)
EXTENDS Integers, Sequences, FiniteSets, TLC

\* ---------------------------------------------------------------- bounds
NumCallers == 2      \* concurrent callers of AttemptHashes / SubmitHashes
MaxCalls == 1        \* calls each of them makes
MaxBatch == 2        \* largest accepted batch (hashes, len(params))
NumStarters == 2     \* concurrent callers of StartGetWork
MaxStarts == 2       \* StartGetWork calls in all
MaxConns == 2        \* connections dialed in all
MaxStops == 2        \* StopGetWork calls from outside the package
MaxCfg == 1          \* SetMaxThreads / SetMaxHashes calls in all
NumCPU == 2          \* runtime.NumCPU() of the host

\* ------------------------------------------------------ program constants
DEFAULT_MAX_THREADS == 2
LIMIT_MAX_HASHES == 10000
InitMaxHashes == 1000
DEFAULT_WORK_PORT == 10100
MaxPort == 65535

Callers == 1..NumCallers
Starters == 1..NumStarters

\* globals.ParseValidateAddress: "A" is a registered address, "" and "X" are not
Addresses == {"", "A", "X"}
ValidAddress(a) == a = "A"

\* rpc.GetBlockTemplate_Result: the fields the package reads.  Blob is the
\* outcome of decoding Blockhashing_blob in powHash.
ZeroJob == [JobID |-> "", Blob |-> "badlen", LastError |-> ""]
GoodJob == [JobID |-> "j1", Blob |-> "ok", LastError |-> ""]
Templates == { GoodJob, [JobID |-> "j2", Blob |-> "badver", LastError |-> "stale"] }

NoErr == <<>>

VARIABLES
    ws,          \* epoch.conn.ws: 0 is nil, c > 0 the c-th connection dialed
    conns,       \* connections dialed so far
    closed,      \* connections on which Close() was called
    wlock,       \* epoch.conn.Mutex: <<>> free, <<c, k>> held by task k of caller c
    job,         \* epoch.jobs.job
    address,     \* epoch.address
    maxHashes,   \* epoch.maxHashes
    maxThreads,  \* epoch.maxThreads
    processing,  \* epoch.processing
    semaphore,   \* epoch.semaphore: 0 is the nil channel, else an index of sems
    sems,        \* the channels made by StartGetWork: [cap, cnt]
    session,     \* epoch.session: [Hashes, MiniBlocks]
    starters,    \* StartGetWork calls in progress
    nStarts,     \* StartGetWork calls made
    stopper,     \* the StopGetWork call from outside in progress
    nStops,      \* StopGetWork calls made from outside
    readers,     \* the read-loop goroutines, in the order they were started:
                 \* [pc, rc the connection read from, result the local of line 291]
    callers,     \* AttemptHashes / SubmitHashes calls in progress
    tasks,       \* tasks[c]: the goroutines launched by caller c's call
    query,       \* the last status query (GetSession, Get*EPOCH) and its result
    nCfg,        \* configuration calls made
    port,        \* epoch.port, a string: the sequence of its characters
    cfg,         \* the last configuration call: its name, argument and error
    panicked     \* a goroutine dereferenced a nil epoch.conn.ws

vars == << ws, conns, closed, wlock, job, address, maxHashes, maxThreads,
           processing, semaphore, sems, session, starters, nStarts, stopper,
           nStops, readers, callers, tasks, query, nCfg, port, cfg, panicked >>

connVars == << ws, conns, closed >>
cfgVars == << address, maxHashes, maxThreads, nCfg, port, cfg >>
semVars == << semaphore, sems >>
startVars == << starters, nStarts >>
stopVars == << stopper, nStops >>
batchVars == << callers, tasks >>

\* ------------------------------------------------------------- helpers
\* "a connection was dialed once" taken for "the connection is active"
IsActiveStale == conns # 0

\* IsActive(): epoch.conn.ws != nil
IsActive == ws # 0

\* strconv / fmt's %d: the decimal digits of n, one character each
DigitChars == << "0", "1", "2", "3", "4", "5", "6", "7", "8", "9" >>

RECURSIVE Itoa(_)
Itoa(n) ==
    IF n < 0 THEN << "-" >> \o Itoa(0 - n)
    ELSE IF n < 10 THEN << DigitChars[n + 1] >>
    ELSE Itoa(n \div 10) \o << DigitChars[(n % 10) + 1] >>

\* fmt.Sprintf(":%d", port)
Sprintf(p) == << ":" >> \o Itoa(p)

\* strings.Trim(s, cut): s without its leading and trailing cut characters
RECURSIVE TrimLeft(_, _)
TrimLeft(s, cut) ==
    IF s # << >> /\ Head(s) = cut THEN TrimLeft(Tail(s), cut) ELSE s

RECURSIVE TrimRight(_, _)
TrimRight(s, cut) ==
    IF s # << >> /\ s[Len(s)] = cut THEN TrimRight(SubSeq(s, 1, Len(s) - 1), cut) ELSE s

Trim(s, cut) == TrimRight(TrimLeft(s, cut), cut)

\* the clamp without its lower end
ClampThreadsNoFloor(i) == IF i > NumCPU THEN NumCPU ELSE i

\* SetMaxThreads' clamp to [1, runtime.NumCPU()]
ClampThreads(i) == IF i > NumCPU THEN NumCPU ELSE IF i < 1 THEN 1 ELSE i

IdleStarter == [pc |-> "idle", addr |-> "", hostOk |-> TRUE, err |-> ""]
IdleStopper == [pc |-> "idle"]
NoResult == [Hashes |-> 0, Submitted |-> 0, Error |-> NoErr]
\* A caller of AttemptHashes / SubmitHashes: the call's locals (kind, n, i, the
\* channel ch its send waits on, the loaded total tmp, result, err) and, for
\* stating properties, what the call found when it began: the session totals
\* (sess0), the connection handle (conn), whether a StartGetWork was still
\* running (early) and whether another batch has run at the same time
\* (overlap); calls counts its calls.
IdleCaller ==
    [pc |-> "idle", kind |-> "attempt", n |-> 0, i |-> 0, ch |-> 0, tmp |-> 0,
     result |-> NoResult, err |-> "", calls |-> 0,
     sess0 |-> <<0, 0>>, conn |-> 0, early |-> FALSE, overlap |-> FALSE]
IdleQuery == [pc |-> "idle", op |-> "", err |-> "", val |-> <<>>]
NoCfg == [op |-> "", arg |-> <<>>, err |-> ""]

Init ==
    /\ ws = 0
    /\ conns = 0
    /\ closed = {}
    /\ wlock = <<>>
    /\ job = ZeroJob
    /\ address = ""
    /\ maxHashes = InitMaxHashes
    /\ maxThreads = ClampThreads(DEFAULT_MAX_THREADS)
    /\ processing = FALSE
    /\ semaphore = 0
    /\ sems = <<>>
    /\ session = [Hashes |-> 0, MiniBlocks |-> 0]
    /\ starters = [s \in Starters |-> IdleStarter]
    /\ nStarts = 0
    /\ stopper = IdleStopper
    /\ nStops = 0
    /\ readers = <<>>
    /\ callers = [c \in Callers |-> IdleCaller]
    /\ tasks = [c \in Callers |-> <<>>]
    /\ query = IdleQuery
    /\ nCfg = 0
    /\ port = Sprintf(DEFAULT_WORK_PORT)
    /\ cfg = NoCfg
    /\ panicked = FALSE

\* ------------------------------------------------------- configuration
\* SetAddress: store the address if it validates
SetAddressOK(a) == ValidAddress(a)

SetAddress(a) ==
    /\ ~panicked
    /\ nCfg < MaxCfg
    /\ nCfg' = nCfg + 1
    /\ address' = IF SetAddressOK(a) THEN a ELSE address
    /\ cfg' = [op |-> "SetAddress", arg |-> a,
               err |-> IF SetAddressOK(a) THEN "" ELSE "invalid address"]
    /\ UNCHANGED << connVars, wlock, job, maxHashes, maxThreads, port, processing, semVars,
                    session, startVars, stopVars, readers, batchVars, query, panicked >>

GetAddress == address

\* a port one below the valid range taken for valid
SetPortOKFromZero(p) == ~(p < 0 \/ p > MaxPort)

\* SetPort: reject a port outside 1..65535
SetPortOK(p) == ~(p < 1 \/ p > MaxPort)

SetPort(p) ==
    /\ ~panicked
    /\ nCfg < MaxCfg
    /\ nCfg' = nCfg + 1
    /\ port' = IF SetPortOK(p) THEN Sprintf(p) ELSE port
    /\ cfg' = [op |-> "SetPort", arg |-> p,
               err |-> IF SetPortOK(p) THEN "" ELSE "invalid EPOCH port"]
    /\ UNCHANGED << connVars, wlock, job, address, maxHashes, maxThreads, processing, semVars,
                    session, startVars, stopVars, readers, batchVars, query, panicked >>

GetPort == Trim(port, ":")

\* SetMaxHashes: reject above the package limit
SetMaxHashesOK(i) == ~(i > LIMIT_MAX_HASHES)

SetMaxHashes(i) ==
    /\ ~panicked
    /\ nCfg < MaxCfg
    /\ nCfg' = nCfg + 1
    /\ maxHashes' = IF SetMaxHashesOK(i) THEN i ELSE maxHashes
    /\ cfg' = [op |-> "SetMaxHashes", arg |-> i,
               err |-> IF SetMaxHashesOK(i) THEN "" ELSE "cannot exceed hashes"]
    /\ UNCHANGED << connVars, wlock, job, address, maxThreads, port, processing, semVars,
                    session, startVars, stopVars, readers, batchVars, query, panicked >>

GetMaxHashes == maxHashes

SetMaxThreads(i) ==
    /\ ~panicked
    /\ nCfg < MaxCfg
    /\ nCfg' = nCfg + 1
    /\ maxThreads' = ClampThreads(i)
    /\ cfg' = [op |-> "SetMaxThreads", arg |-> i, err |-> ""]
    /\ UNCHANGED << connVars, wlock, job, address, maxHashes, port, processing, semVars,
                    session, startVars, stopVars, readers, batchVars, query, panicked >>

GetMaxThreads == maxThreads

\* ------------------------------------------------------- StartGetWork
\* line 239: the IsActive check; the arguments are kept for the next steps
StartCall(s, addr, hostOk) ==
    /\ ~panicked
    /\ starters[s].pc = "idle"
    /\ nStarts < MaxStarts
    /\ nStarts' = nStarts + 1
    /\ starters' = [starters EXCEPT ![s] =
          IF IsActive
          THEN [IdleStarter EXCEPT !.err = "already running"]
          ELSE [pc |-> "validate", addr |-> addr, hostOk |-> hostOk, err |-> ""]]
    /\ UNCHANGED << connVars, wlock, job, cfgVars, processing, semVars, session,
                    stopVars, readers, batchVars, query, panicked >>

\* lines 244-262: net.SplitHostPort, SetAddress(address), ParseValidateAddress(epoch.address)
StartValidate(s) ==
    LET st == starters[s]
        setOk == st.addr = "" \/ SetAddressOK(st.addr)
        addr2 == IF st.addr # "" /\ SetAddressOK(st.addr) THEN st.addr ELSE address
        e == IF ~st.hostOk THEN "could not get host"
             ELSE IF ~setOk THEN "could not set address"
             ELSE IF ~ValidAddress(addr2) THEN "address is not valid"
             ELSE ""
    IN  /\ ~panicked
        /\ st.pc = "validate"
        /\ address' = IF st.hostOk THEN addr2 ELSE address
        /\ starters' = [starters EXCEPT ![s] =
              IF e = "" THEN [st EXCEPT !.pc = "dial"]
              ELSE [IdleStarter EXCEPT !.err = e]]
        /\ UNCHANGED << connVars, wlock, job, maxHashes, maxThreads, nCfg, port, cfg,
                        processing, semVars, session, nStarts, stopVars, readers, batchVars, query, panicked >>

\* the channel made before the dial's error is looked at
StartDialSemFirst(s, ok) ==
    /\ ~panicked
    /\ starters[s].pc = "dial"
    /\ ok => conns < MaxConns
    /\ sems' = Append(sems, [cap |-> maxThreads, cnt |-> 0])
    /\ semaphore' = Len(sems) + 1
    /\ IF ok
       THEN /\ conns' = conns + 1
            /\ ws' = conns + 1
            /\ starters' = [starters EXCEPT ![s].pc = "reset"]
       ELSE /\ conns' = conns
            /\ ws' = 0
            /\ starters' = [starters EXCEPT ![s] = [IdleStarter EXCEPT !.err = "dial"]]
    /\ UNCHANGED << closed, wlock, job, cfgVars, processing, session,
                    nStarts, stopVars, readers, batchVars, query, panicked >>

\* lines 276-280: the dial assigns epoch.conn.ws, a connection or nil
StartDial(s, ok) ==
    /\ ~panicked
    /\ starters[s].pc = "dial"
    /\ ok => conns < MaxConns
    /\ IF ok
       THEN /\ conns' = conns + 1
            /\ ws' = conns + 1
            /\ starters' = [starters EXCEPT ![s].pc = "reset"]
       ELSE /\ conns' = conns
            /\ ws' = 0
            /\ starters' = [starters EXCEPT ![s] = [IdleStarter EXCEPT !.err = "dial"]]
    /\ UNCHANGED << closed, wlock, job, cfgVars, processing, semVars, session,
                    nStarts, stopVars, readers, batchVars, query, panicked >>

\* lines 285-286: the session totals are set to zero
StartReset(s) ==
    /\ ~panicked
    /\ starters[s].pc = "reset"
    /\ session' = [Hashes |-> 0, MiniBlocks |-> 0]
    /\ starters' = [starters EXCEPT ![s].pc = "sem"]
    /\ UNCHANGED << connVars, wlock, job, cfgVars, processing, semVars, nStarts,
                    stopVars, readers, batchVars, query, panicked >>

\* lines 287-308: a new channel of capacity maxThreads, the read-loop goroutine, return
StartSem(s) ==
    /\ ~panicked
    /\ starters[s].pc = "sem"
    /\ sems' = Append(sems, [cap |-> maxThreads, cnt |-> 0])
    /\ semaphore' = Len(sems) + 1
    /\ readers' = Append(readers, [pc |-> "eval", rc |-> 0, result |-> ZeroJob])
    /\ starters' = [starters EXCEPT ![s] = IdleStarter]
    /\ UNCHANGED << connVars, wlock, job, cfgVars, processing, session, nStarts,
                    stopVars, batchVars, query, panicked >>

\* ------------------------------------------------------- StopGetWork
\* The three accesses of StopGetWork, lines 229-231, as the successive values
\* of a program counter: "chk" -> "close" -> "clear" -> done.
\* the check left out: the handle is closed whatever it is
StopChkAlways == "close"

\* line 229: if IsActive(); an inactive engine is left as it is
StopChk == IF IsActive THEN "close" ELSE "done"

\* StopGetWork called from outside the package
StopCall ==
    /\ ~panicked
    /\ stopper.pc = "idle"
    /\ nStops < MaxStops
    /\ nStops' = nStops + 1
    /\ stopper' = [pc |-> IF StopChk = "done" THEN "idle" ELSE StopChk]
    /\ UNCHANGED << connVars, wlock, job, cfgVars, processing, semVars, session,
                    startVars, readers, batchVars, query, panicked >>

\* line 230: epoch.conn.ws.Close(), on the handle as it is now
StopClose ==
    /\ ~panicked
    /\ stopper.pc = "close"
    /\ IF ws = 0
       THEN /\ panicked' = TRUE
            /\ UNCHANGED << closed, stopper >>
       ELSE /\ closed' = closed \cup {ws}
            /\ stopper' = [pc |-> "clear"]
            /\ UNCHANGED panicked
    /\ UNCHANGED << ws, conns, wlock, job, cfgVars, processing, semVars, session,
                    startVars, nStops, readers, batchVars, query >>

\* line 231: epoch.conn.ws = nil
StopClear ==
    /\ ~panicked
    /\ stopper.pc = "clear"
    /\ ws' = 0
    /\ stopper' = IdleStopper
    /\ UNCHANGED << conns, closed, wlock, job, cfgVars, processing, semVars, session,
                    startVars, nStops, readers, batchVars, query, panicked >>

\* ------------------------------------------------------- the read-loop
\* line 293: epoch.conn.ws is evaluated, then ReadJSON blocks on that connection
ReadEval(r) ==
    /\ ~panicked
    /\ r \in DOMAIN readers
    /\ readers[r].pc = "eval"
    /\ IF ws = 0
       THEN /\ panicked' = TRUE
            /\ UNCHANGED readers
       ELSE /\ readers' = [readers EXCEPT ![r].pc = "recv", ![r].rc = ws]
            /\ UNCHANGED panicked
    /\ UNCHANGED << connVars, wlock, job, cfgVars, processing, semVars, session,
                    startVars, stopVars, batchVars, query >>

\* the first template kept, later ones dropped
newJobKeepsFirst(t) == IF job.JobID = "" THEN t ELSE job

\* newJob, lines 83-91: the template replaces the stored one
newJob(t) == t

\* getJob, lines 94-100: a copy of the stored template
getJob == job

\* lines 293-302: a template arrives and is stored; the loop reads again
ReadJob(r, t) ==
    /\ ~panicked
    /\ r \in DOMAIN readers
    /\ readers[r].pc = "recv"
    /\ readers[r].rc \notin closed
    /\ job' = newJob(t)
    /\ readers' = [readers EXCEPT ![r] = [pc |-> "eval", rc |-> 0, result |-> t]]
    /\ UNCHANGED << connVars, wlock, cfgVars, processing, semVars, session,
                    startVars, stopVars, batchVars, query, panicked >>

\* the loop left with no deferred StopGetWork
ReadFailNoStop(r) ==
    /\ ~panicked
    /\ r \in DOMAIN readers
    /\ readers[r].pc = "recv"
    /\ readers' = [readers EXCEPT ![r].pc = "done", ![r].rc = 0]
    /\ UNCHANGED << connVars, wlock, job, cfgVars, processing, semVars, session,
                    startVars, stopVars, batchVars, query, panicked >>

\* lines 293-297: the read fails (the connection was closed, or the network
\* failed); the loop breaks and the deferred StopGetWork runs its check
ReadFail(r) ==
    /\ ~panicked
    /\ r \in DOMAIN readers
    /\ readers[r].pc = "recv"
    /\ readers' = [readers EXCEPT ![r].pc = StopChk, ![r].rc = 0]
    /\ UNCHANGED << connVars, wlock, job, cfgVars, processing, semVars, session,
                    startVars, stopVars, batchVars, query, panicked >>

\* line 290 -> 230: the deferred StopGetWork closes the handle as it is now
ReadStopClose(r) ==
    /\ ~panicked
    /\ r \in DOMAIN readers
    /\ readers[r].pc = "close"
    /\ IF ws = 0
       THEN /\ panicked' = TRUE
            /\ UNCHANGED << closed, readers >>
       ELSE /\ closed' = closed \cup {ws}
            /\ readers' = [readers EXCEPT ![r].pc = "clear"]
            /\ UNCHANGED panicked
    /\ UNCHANGED << ws, conns, wlock, job, cfgVars, processing, semVars, session,
                    startVars, stopVars, batchVars, query >>

\* line 290 -> 231: the deferred StopGetWork clears the handle
ReadStopClear(r) ==
    /\ ~panicked
    /\ r \in DOMAIN readers
    /\ readers[r].pc = "clear"
    /\ ws' = 0
    /\ readers' = [readers EXCEPT ![r].pc = "done"]
    /\ UNCHANGED << conns, closed, wlock, job, cfgVars, processing, semVars, session,
                    startVars, stopVars, batchVars, query, panicked >>

\* ------------------------------------------- AttemptHashes / SubmitHashes
\* The batch sizes a caller asks for: none, a few, and more than the ceiling
AttemptSizes == {-1, 1, MaxBatch, InitMaxHashes + 1}
SubmitSizes == {0, MaxBatch, InitMaxHashes + 1}

\* the ceiling compared off by one
ExceedsMaxOffByOne(n) == n > maxHashes + 1

\* lines 391 and 460: hashes > GetMaxHashes(), l > GetMaxHashes()
ExceedsMax(n) == n > maxHashes

\* the goroutine of lines 412-433 (attempt) and 481-497 (submit) as launched:
\* sem is the channel its slot was sent on, pass the outcome of its local
\* target comparison (line 371) once it has made it
NewTask(kind, ch) ==
    [pc |-> IF kind = "attempt" THEN "pow" ELSE "submit",
     valid |-> FALSE, pass |-> FALSE, tmp |-> 0, ch |-> 0, sem |-> ch]

\* wg: the tasks of caller c's call that have not called wg.Done()
Running(c) == {k \in DOMAIN tasks[c] : tasks[c][k].pc # "done"}

\* the callers that are inside a call
Busy == {d \in Callers : callers[d].pc # "idle"}

\* lines 386-389 and 454-457: the call starts with the IsActive check
Call(c, kind, n) ==
    /\ ~panicked
    /\ callers[c].pc = "idle"
    /\ callers[c].calls < MaxCalls
    /\ c > 1 => callers[c - 1].calls > 0    \* callers are alike: they start in order
    /\ callers' = [d \in Callers |->
          IF d = c
          THEN [IdleCaller EXCEPT
                  !.pc = IF IsActive THEN "max" ELSE "idle",
                  !.err = IF IsActive THEN "" ELSE "epoch is not active",
                  !.kind = kind, !.n = n, !.calls = callers[c].calls + 1,
                  !.sess0 = <<session.Hashes, session.MiniBlocks>>,
                  !.conn = ws,
                  !.early = \E st \in Starters : starters[st].pc # "idle",
                  !.overlap = IsActive /\ Busy # {}]
          ELSE IF d \in Busy /\ IsActive THEN [callers[d] EXCEPT !.overlap = TRUE]
          ELSE callers[d]]
    /\ tasks' = [tasks EXCEPT ![c] = <<>>]
    /\ UNCHANGED << connVars, wlock, job, cfgVars, processing, semVars, session,
                    startVars, stopVars, readers, query, panicked >>

\* lines 391-394 and 459-463: the request is compared with the ceiling
CheckMax(c) ==
    /\ ~panicked
    /\ callers[c].pc = "max"
    /\ callers' = [callers EXCEPT ![c] =
          IF ExceedsMax(callers[c].n)
          THEN [@ EXCEPT !.pc = "idle", !.err = "exceeds maxHashes"]
          ELSE [@ EXCEPT !.pc = "setproc"]]
    /\ UNCHANGED << connVars, wlock, job, cfgVars, processing, semVars, session,
                    startVars, stopVars, readers, tasks, query, panicked >>

\* setProcessing, lines 76-80
setProcessing(b) == processing' = b

\* lines 396 and 465: setProcessing(true)
SetProc(c) ==
    /\ ~panicked
    /\ callers[c].pc = "setproc"
    /\ setProcessing(TRUE)
    /\ callers' = [callers EXCEPT ![c].pc = "loop"]
    /\ UNCHANGED << connVars, wlock, job, cfgVars, semVars, session,
                    startVars, stopVars, readers, tasks, query, panicked >>

\* lines 404-409 and 473-478: the loop condition, the result.Error check and
\* the evaluation of epoch.semaphore, the channel the send then blocks on
Loop(c) ==
    /\ ~panicked
    /\ callers[c].pc = "loop"
    /\ callers' = [callers EXCEPT ![c] =
          IF Len(tasks[c]) < callers[c].n /\ callers[c].result.Error = NoErr
          THEN [@ EXCEPT !.pc = "send", !.ch = semaphore]
          ELSE [@ EXCEPT !.pc = "wait"]]
    /\ UNCHANGED << connVars, wlock, job, cfgVars, processing, semVars, session,
                    startVars, stopVars, readers, tasks, query, panicked >>

\* a send on a channel proceeds when its buffer has room (never on a nil channel)
CanSend(ch) == ch # 0 /\ sems[ch].cnt < sems[ch].cap

\* lines 409-412 and 478-481: the slot is taken, wg.Add(1), the task is
\* launched, and (attempt) i++
Send(c) ==
    LET ch == callers[c].ch IN
    /\ ~panicked
    /\ callers[c].pc = "send"
    /\ CanSend(ch)
    /\ sems' = [sems EXCEPT ![ch].cnt = @ + 1]
    /\ tasks' = [tasks EXCEPT ![c] = Append(@, NewTask(callers[c].kind, ch))]
    /\ callers' = [callers EXCEPT ![c].pc = "loop", ![c].ch = 0,
                                  ![c].i = IF callers[c].kind = "attempt" THEN @ + 1 ELSE @]
    /\ UNCHANGED << connVars, wlock, job, cfgVars, processing, semaphore, session,
                    startVars, stopVars, readers, query, panicked >>

\* the totals added without joining the tasks
WaitNoJoin(c) ==
    /\ ~panicked
    /\ callers[c].pc = "wait"
    /\ callers' = [callers EXCEPT
          ![c].result.Hashes = callers[c].i,
          ![c].pc = IF callers[c].kind = "attempt" THEN "hW" ELSE "mW",
          ![c].tmp = IF callers[c].kind = "attempt" THEN session.Hashes
                     ELSE session.MiniBlocks]
    /\ UNCHANGED << connVars, wlock, job, cfgVars, processing, semVars, session,
                    startVars, stopVars, readers, tasks, query, panicked >>

\* lines 436-443 and 500-505: wg.Wait() has returned (every task called
\* wg.Done()), result.Hashes = uint64(i), and the load of the first session
\* total the call adds to: epoch.session.Hashes (attempt) or
\* epoch.session.MiniBlocks (submit)
Wait(c) ==
    /\ ~panicked
    /\ callers[c].pc = "wait"
    /\ Running(c) = {}
    /\ callers' = [callers EXCEPT
          ![c].result.Hashes = callers[c].i,
          ![c].pc = IF callers[c].kind = "attempt" THEN "hW" ELSE "mW",
          ![c].tmp = IF callers[c].kind = "attempt" THEN session.Hashes
                     ELSE session.MiniBlocks]
    /\ UNCHANGED << connVars, wlock, job, cfgVars, processing, semVars, session,
                    startVars, stopVars, readers, tasks, query, panicked >>

\* line 443, epoch.session.Hashes += h: the store
AddHashesWrite(c) ==
    /\ ~panicked
    /\ callers[c].pc = "hW"
    /\ session' = [session EXCEPT !.Hashes = callers[c].tmp + callers[c].result.Hashes]
    /\ callers' = [callers EXCEPT ![c].pc = "mR", ![c].tmp = 0]
    /\ UNCHANGED << connVars, wlock, job, cfgVars, processing, semVars,
                    startVars, stopVars, readers, tasks, query, panicked >>

\* line 444, epoch.session.MiniBlocks += result.Submitted in AttemptHashes: the load
AddMinisRead(c) ==
    /\ ~panicked
    /\ callers[c].pc = "mR"
    /\ callers' = [callers EXCEPT ![c].pc = "mW", ![c].tmp = session.MiniBlocks]
    /\ UNCHANGED << connVars, wlock, job, cfgVars, processing, semVars, session,
                    startVars, stopVars, readers, tasks, query, panicked >>

\* lines 444 and 505, epoch.session.MiniBlocks += result.Submitted: the store
AddMinisWrite(c) ==
    /\ ~panicked
    /\ callers[c].pc = "mW"
    /\ session' = [session EXCEPT !.MiniBlocks = callers[c].tmp + callers[c].result.Submitted]
    /\ callers' = [callers EXCEPT ![c].pc = "ret", ![c].tmp = 0]
    /\ UNCHANGED << connVars, wlock, job, cfgVars, processing, semVars,
                    startVars, stopVars, readers, tasks, query, panicked >>

\* lines 397 and 466: the deferred setProcessing(false); the call returns
Return(c) ==
    /\ ~panicked
    /\ callers[c].pc = "ret"
    /\ setProcessing(FALSE)
    /\ callers' = [callers EXCEPT ![c].pc = "idle"]
    /\ UNCHANGED << connVars, wlock, job, cfgVars, semVars, session,
                    startVars, stopVars, readers, tasks, query, panicked >>

\* ------------------------------------------------------------ the tasks
\* a task that sets result.Error and goes on to the write
TaskFailGoesOn(c, k, msg) ==
    /\ callers' = [callers EXCEPT ![c].result.Error = <<msg, k>>]
    /\ tasks' = [tasks EXCEPT ![c][k].pc = "lock"]

\* a task sets result.Error and goes to its deferred release
TaskFail(c, k, msg) ==
    /\ callers' = [callers EXCEPT ![c].result.Error = <<msg, k>>]
    /\ tasks' = [tasks EXCEPT ![c][k].pc = "rel"]

\* powHash, lines 339-355: the stored template's blob decides the outcome
powHash == job.Blob

\* lines 418-422: powHash(), and result.Error = err when it fails
TaskPow(c, k) ==
    /\ ~panicked
    /\ k \in DOMAIN tasks[c]
    /\ tasks[c][k].pc = "pow"
    /\ IF powHash = "ok"
       THEN /\ tasks' = [tasks EXCEPT ![c][k].pc = "submit"]
            /\ UNCHANGED callers
       ELSE TaskFail(c, k, powHash)
    /\ UNCHANGED << connVars, wlock, job, cfgVars, processing, semVars, session,
                    startVars, stopVars, readers, query, panicked >>

\* what a task does after submitBlock returned without error: (submit) i++,
\* then result.Submitted++ if valid
AfterSubmit(kind, valid) ==
    IF kind = "submit" THEN "iR" ELSE IF valid THEN "sR" ELSE "rel"

\* submitBlock, lines 366-372: the IsActive check and the local comparison
\* CheckPowHashBig (pass)
TaskSubmit(c, k, pass) ==
    /\ ~panicked
    /\ k \in DOMAIN tasks[c]
    /\ tasks[c][k].pc = "submit"
    /\ IF ~IsActive
       THEN TaskFail(c, k, "connection is closed")
       ELSE /\ tasks' = [tasks EXCEPT ![c][k].pc =
                  IF pass THEN "lock" ELSE AfterSubmit(callers[c].kind, FALSE),
                                       ![c][k].pass = pass]
            /\ UNCHANGED callers
    /\ UNCHANGED << connVars, wlock, job, cfgVars, processing, semVars, session,
                    startVars, stopVars, readers, query, panicked >>

\* the lock of line 373 taken whoever holds it
TaskLockNoMutex(c, k) ==
    /\ ~panicked
    /\ k \in DOMAIN tasks[c]
    /\ tasks[c][k].pc = "lock"
    /\ wlock' = <<c, k>>
    /\ tasks' = [tasks EXCEPT ![c][k].pc = "write"]
    /\ UNCHANGED << connVars, job, cfgVars, processing, semVars, session,
                    startVars, stopVars, readers, callers, query, panicked >>

\* line 373: epoch.conn.Lock()
TaskLock(c, k) ==
    /\ ~panicked
    /\ k \in DOMAIN tasks[c]
    /\ tasks[c][k].pc = "lock"
    /\ wlock = <<>>
    /\ wlock' = <<c, k>>
    /\ tasks' = [tasks EXCEPT ![c][k].pc = "write"]
    /\ UNCHANGED << connVars, job, cfgVars, processing, semVars, session,
                    startVars, stopVars, readers, callers, query, panicked >>

\* lines 374-377: epoch.conn.ws.WriteJSON on the handle as it is now, then the
\* deferred Unlock; a write on a closed connection fails
TaskWrite(c, k, ok) ==
    /\ ~panicked
    /\ k \in DOMAIN tasks[c]
    /\ tasks[c][k].pc = "write"
    /\ IF ws = 0
       THEN /\ panicked' = TRUE
            /\ UNCHANGED << wlock, callers, tasks >>
       ELSE /\ ok => ws \notin closed
            /\ wlock' = <<>>
            /\ UNCHANGED panicked
            /\ IF ok
               THEN /\ tasks' = [tasks EXCEPT ![c][k].pc = AfterSubmit(callers[c].kind, TRUE),
                                              ![c][k].valid = TRUE]
                    /\ UNCHANGED callers
               ELSE TaskFail(c, k, "write failed")
    /\ UNCHANGED << connVars, job, cfgVars, processing, semVars, session,
                    startVars, stopVars, readers, query >>

\* line 493, i++ in a submit task: the load
TaskIRead(c, k) ==
    /\ ~panicked
    /\ k \in DOMAIN tasks[c]
    /\ tasks[c][k].pc = "iR"
    /\ tasks' = [tasks EXCEPT ![c][k].pc = "iW", ![c][k].tmp = callers[c].i]
    /\ UNCHANGED << connVars, wlock, job, cfgVars, processing, semVars, session,
                    startVars, stopVars, readers, callers, query, panicked >>

\* line 493, i++ in a submit task: the store
TaskIWrite(c, k) ==
    /\ ~panicked
    /\ k \in DOMAIN tasks[c]
    /\ tasks[c][k].pc = "iW"
    /\ callers' = [callers EXCEPT ![c].i = tasks[c][k].tmp + 1]
    /\ tasks' = [tasks EXCEPT ![c][k].pc = IF tasks[c][k].valid THEN "sR" ELSE "rel",
                              ![c][k].tmp = 0]
    /\ UNCHANGED << connVars, wlock, job, cfgVars, processing, semVars, session,
                    startVars, stopVars, readers, query, panicked >>

\* lines 431 and 495, result.Submitted++: the load
TaskSubRead(c, k) ==
    /\ ~panicked
    /\ k \in DOMAIN tasks[c]
    /\ tasks[c][k].pc = "sR"
    /\ tasks' = [tasks EXCEPT ![c][k].pc = "sW", ![c][k].tmp = callers[c].result.Submitted]
    /\ UNCHANGED << connVars, wlock, job, cfgVars, processing, semVars, session,
                    startVars, stopVars, readers, callers, query, panicked >>

\* lines 431 and 495, result.Submitted++: the store
TaskSubWrite(c, k) ==
    /\ ~panicked
    /\ k \in DOMAIN tasks[c]
    /\ tasks[c][k].pc = "sW"
    /\ callers' = [callers EXCEPT ![c].result.Submitted = tasks[c][k].tmp + 1]
    /\ tasks' = [tasks EXCEPT ![c][k].pc = "rel", ![c][k].tmp = 0]
    /\ UNCHANGED << connVars, wlock, job, cfgVars, processing, semVars, session,
                    startVars, stopVars, readers, query, panicked >>

\* lines 414 and 483: epoch.semaphore is evaluated, then the receive blocks on
\* that channel
TaskRel(c, k) ==
    /\ ~panicked
    /\ k \in DOMAIN tasks[c]
    /\ tasks[c][k].pc = "rel"
    /\ tasks' = [tasks EXCEPT ![c][k].pc = "recv", ![c][k].ch = semaphore]
    /\ UNCHANGED << connVars, wlock, job, cfgVars, processing, semVars, session,
                    startVars, stopVars, readers, callers, query, panicked >>

\* a receive proceeds when the buffer holds an element (never on a nil channel)
CanRecv(ch) == ch # 0 /\ sems[ch].cnt > 0

\* lines 414-415 and 483-484: the slot is received back and wg.Done()
TaskRecv(c, k) ==
    LET ch == tasks[c][k].ch IN
    /\ ~panicked
    /\ k \in DOMAIN tasks[c]
    /\ tasks[c][k].pc = "recv"
    /\ CanRecv(ch)
    /\ sems' = [sems EXCEPT ![ch].cnt = @ - 1]
    /\ tasks' = [tasks EXCEPT ![c][k].pc = "done", ![c][k].ch = 0]
    /\ UNCHANGED << connVars, wlock, job, cfgVars, processing, semaphore, session,
                    startVars, stopVars, readers, callers, query, panicked >>

\* ------------------------------------------------------ status queries
\* GetMaxHashesEPOCH, lines 73-82 of the methods file
GetMaxHashesEPOCH ==
    /\ ~panicked
    /\ query.pc = "idle"
    /\ query' = IF ~IsActive
                THEN [IdleQuery EXCEPT !.op = "GetMaxHashesEPOCH", !.err = "epoch is not active"]
                ELSE [IdleQuery EXCEPT !.op = "GetMaxHashesEPOCH", !.val = <<maxHashes>>]
    /\ UNCHANGED << connVars, wlock, job, cfgVars, processing, semVars, session,
                    startVars, stopVars, readers, batchVars, panicked >>

\* GetAddressEPOCH, lines 90-99 of the methods file
GetAddressEPOCH ==
    /\ ~panicked
    /\ query.pc = "idle"
    /\ query' = IF ~IsActive
                THEN [IdleQuery EXCEPT !.op = "GetAddressEPOCH", !.err = "epoch is not active"]
                ELSE [IdleQuery EXCEPT !.op = "GetAddressEPOCH", !.val = <<address>>]
    /\ UNCHANGED << connVars, wlock, job, cfgVars, processing, semVars, session,
                    startVars, stopVars, readers, batchVars, panicked >>

\* GetSessionEPOCH, lines 110-117 of the methods file: the IsActive check,
\* then GetSession
GetSessionEPOCH ==
    /\ ~panicked
    /\ query.pc = "idle"
    /\ query' = IF ~IsActive
                THEN [IdleQuery EXCEPT !.op = "GetSessionEPOCH", !.err = "epoch is not active"]
                ELSE [IdleQuery EXCEPT !.op = "GetSessionEPOCH", !.pc = "poll"]
    /\ UNCHANGED << connVars, wlock, job, cfgVars, processing, semVars, session,
                    startVars, stopVars, readers, batchVars, panicked >>

\* GetSession called directly, lines 312-316: the timer starts
GetSessionCall ==
    /\ ~panicked
    /\ query.pc = "idle"
    /\ query' = [IdleQuery EXCEPT !.op = "GetSession", !.pc = "poll"]
    /\ UNCHANGED << connVars, wlock, job, cfgVars, processing, semVars, session,
                    startVars, stopVars, readers, batchVars, panicked >>

\* IsProcessing(), lines 123-128
IsProcessing == processing

\* lines 321-327: one turn of the polling loop, taken when the timer has not
\* fired: the snapshot is next if IsProcessing() is false, else it sleeps
GetSessionPoll ==
    /\ ~panicked
    /\ query.pc = "poll"
    /\ query' = [query EXCEPT !.pc = IF ~IsProcessing THEN "snap" ELSE "poll"]
    /\ UNCHANGED << connVars, wlock, job, cfgVars, processing, semVars, session,
                    startVars, stopVars, readers, batchVars, panicked >>

\* lines 323-324: session = epoch.session; return
GetSessionSnap ==
    /\ ~panicked
    /\ query.pc = "snap"
    /\ query' = [query EXCEPT !.pc = "idle", !.val = <<session.Hashes, session.MiniBlocks>>]
    /\ UNCHANGED << connVars, wlock, job, cfgVars, processing, semVars, session,
                    startVars, stopVars, readers, batchVars, panicked >>

\* lines 318-320: the timer fired before a turn of the loop found the engine
\* quiescent
GetSessionTimeout ==
    /\ ~panicked
    /\ query.pc = "poll"
    /\ query' = [query EXCEPT !.pc = "idle", !.err = "could not get EPOCH session"]
    /\ UNCHANGED << connVars, wlock, job, cfgVars, processing, semVars, session,
                    startVars, stopVars, readers, batchVars, panicked >>

\* ------------------------------------------------------- specification
\* The steps of the package, grouped by the goroutine that takes them.
HashesNext == \E i \in {1, LIMIT_MAX_HASHES + 1} : SetMaxHashes(i)

ThreadsNext == \E i \in {0, 1, NumCPU + 1} : SetMaxThreads(i)

PortNext == \E p \in {0, 1, DEFAULT_WORK_PORT, MaxPort, MaxPort + 1} : SetPort(p)

AddressNext == \E a \in Addresses : SetAddress(a)

\* the worker limit is configured before the first StartGetWork
ThreadsFirst == \E i \in {0, 1, NumCPU + 1} : nStarts = 0 /\ SetMaxThreads(i)

\* StartGetWork called by the goroutines S with addresses A and endpoints
\* whose host parses or not (H), N times in all
StartNext(S, A, H, N) ==
    \/ \E s \in S, a \in A, h \in H : nStarts < N /\ StartCall(s, a, h)
    \/ \E s \in S : StartValidate(s)
    \/ \E s \in S, ok \in BOOLEAN : StartDial(s, ok)
    \/ \E s \in S : StartReset(s)
    \/ \E s \in S : StartSem(s)

StopNext ==
    \/ StopCall
    \/ StopClose
    \/ StopClear

ReadNext(T) ==
    \/ \E r \in 1..MaxConns : ReadEval(r)
    \/ \E r \in 1..MaxConns, t \in T : ReadJob(r, t)
    \/ \E r \in 1..MaxConns : ReadFail(r)
    \/ \E r \in 1..MaxConns : ReadStopClose(r)
    \/ \E r \in 1..MaxConns : ReadStopClear(r)

AttemptCalls(C, AS) == \E c \in C, n \in AS : Call(c, "attempt", n)

SubmitCalls(C, SS) == \E c \in C, n \in SS : Call(c, "submit", n)

\* the dispatcher: the body of AttemptHashes and SubmitHashes after the call
DispatchNext(C) ==
    \/ \E c \in C : CheckMax(c)
    \/ \E c \in C : SetProc(c)
    \/ \E c \in C : Loop(c)
    \/ \E c \in C : Send(c)
    \/ \E c \in C : Wait(c)
    \/ \E c \in C : AddMinisWrite(c)
    \/ \E c \in C : Return(c)

\* the session hash total, which only AttemptHashes adds to
AttemptTotals(C) ==
    \/ \E c \in C : AddHashesWrite(c)
    \/ \E c \in C : AddMinisRead(c)

\* the tasks of both kinds of batch
TaskNext(C) ==
    \/ \E c \in C, k \in 1..MaxBatch : TaskSubmit(c, k, TRUE)
    \/ \E c \in C, k \in 1..MaxBatch : TaskSubmit(c, k, FALSE)
    \/ \E c \in C, k \in 1..MaxBatch : TaskLock(c, k)
    \/ \E c \in C, k \in 1..MaxBatch : TaskWrite(c, k, TRUE)
    \/ \E c \in C, k \in 1..MaxBatch : TaskWrite(c, k, FALSE)
    \/ \E c \in C, k \in 1..MaxBatch : TaskSubRead(c, k)
    \/ \E c \in C, k \in 1..MaxBatch : TaskSubWrite(c, k)
    \/ \E c \in C, k \in 1..MaxBatch : TaskRel(c, k)
    \/ \E c \in C, k \in 1..MaxBatch : TaskRecv(c, k)

\* the steps only a task of AttemptHashes takes
AttemptTaskNext(C) == \E c \in C, k \in 1..MaxBatch : TaskPow(c, k)

\* the steps only a task of SubmitHashes takes
SubmitTaskNext(C) ==
    \/ \E c \in C, k \in 1..MaxBatch : TaskIRead(c, k)
    \/ \E c \in C, k \in 1..MaxBatch : TaskIWrite(c, k)

AttemptNext(C, AS) ==
    \/ AttemptCalls(C, AS)
    \/ AttemptTotals(C)
    \/ AttemptTaskNext(C)

SubmitNext(C, SS) ==
    \/ SubmitCalls(C, SS)
    \/ SubmitTaskNext(C)

BatchNext(C, AS, SS) ==
    \/ AttemptNext(C, AS)
    \/ SubmitNext(C, SS)
    \/ DispatchNext(C)
    \/ TaskNext(C)

\* GetSession called directly
SessionNext ==
    \/ GetSessionCall
    \/ GetSessionPoll
    \/ GetSessionSnap
    \/ GetSessionTimeout

QueryNext ==
    \/ GetMaxHashesEPOCH
    \/ GetAddressEPOCH
    \/ GetSessionEPOCH
    \/ SessionNext

\* The whole package: every goroutine, every input.
Next ==
    \/ HashesNext
    \/ ThreadsNext
    \/ PortNext
    \/ AddressNext
    \/ StartNext(Starters, Addresses, BOOLEAN, MaxStarts)
    \/ StopNext
    \/ ReadNext(Templates)
    \/ BatchNext(Callers, AttemptSizes, SubmitSizes)
    \/ QueryNext

Spec == Init /\ [][Next]_vars

\* Concurrent callers of StartGetWork with every kind of argument, StopGetWork
\* and the read-loops.
NextStart ==
    \/ StartNext(Starters, Addresses, BOOLEAN, MaxStarts)
    \/ StopNext
    \/ ReadNext(Templates)

SpecStart == Init /\ [][NextStart]_vars

\* The same, with a scheduler that lets a read-loop that left its loop run its
\* deferred StopGetWork (lines 290, 229-231) to the end.
SpecStartFair ==
    SpecStart /\ WF_vars(\E r \in 1..MaxConns : ReadStopClose(r) \/ ReadStopClear(r))

\* One batch of AttemptHashes under a connection that the read-loop tears
\* down and StartGetWork establishes again.
NextRestart ==
    \/ ThreadsFirst
    \/ StartNext({1}, {"A"}, {TRUE}, MaxStarts)
    \/ ReadNext({GoodJob})
    \/ AttemptNext({1}, {MaxBatch})
    \/ DispatchNext({1})
    \/ TaskNext({1})

SpecRestart == Init /\ [][NextRestart]_vars

\* every step the k-th task of caller c's call can take
TaskStep(c, k) ==
    \/ TaskPow(c, k)
    \/ TaskSubmit(c, k, TRUE)
    \/ TaskSubmit(c, k, FALSE)
    \/ TaskLock(c, k)
    \/ TaskWrite(c, k, TRUE)
    \/ TaskWrite(c, k, FALSE)
    \/ TaskSubRead(c, k)
    \/ TaskSubWrite(c, k)
    \/ TaskRel(c, k)
    \/ TaskRecv(c, k)

\* The same, with a scheduler that lets the dispatcher and every task run
\* whenever they can: each hash and each write completes, and a goroutine
\* waits only in a channel operation or for the lock.
SpecRestartFair ==
    /\ SpecRestart
    /\ WF_vars(DispatchNext({1}) \/ AttemptTotals({1}))
    /\ \A k \in 1..MaxBatch : WF_vars(TaskStep(1, k))

\* Two batches of at most one task each, one after the other or at the same
\* time, on one connection.
NextBatch ==
    \/ StartNext({1}, {"A"}, {TRUE}, 1)
    \/ ReadNext({GoodJob})
    \/ BatchNext({1, 2}, {-1, 1, InitMaxHashes + 1}, {0, 1, InitMaxHashes + 1})

SpecBatch == Init /\ [][NextBatch]_vars

\* One batch of any size on one connection, and the status queries.
NextOne ==
    \/ StartNext({1}, {"A"}, {TRUE}, 1)
    \/ ReadNext({GoodJob})
    \/ BatchNext({1}, AttemptSizes, SubmitSizes)
    \/ QueryNext

SpecOne == Init /\ [][NextOne]_vars

\* Two batches of AttemptHashes on one connection and GetSession.
NextQuery ==
    \/ StartNext({1}, {"A"}, {TRUE}, 1)
    \/ ReadNext({GoodJob})
    \/ AttemptNext({1, 2}, {1})
    \/ DispatchNext({1, 2})
    \/ TaskNext({1, 2})
    \/ SessionNext

SpecQuery == Init /\ [][NextQuery]_vars

\* One configuration call of any kind, at any moment of a connection's life.
NextConfig ==
    \/ \E i \in {-1, 1, LIMIT_MAX_HASHES, LIMIT_MAX_HASHES + 1} : SetMaxHashes(i)
    \/ \E i \in -1..(NumCPU + 2) : SetMaxThreads(i)
    \/ PortNext
    \/ AddressNext
    \/ StartNext({1}, Addresses, BOOLEAN, 1)
    \/ StopNext
    \/ ReadNext({GoodJob})

SpecConfig == Init /\ [][NextConfig]_vars

\* One batch of MaxBatch tasks on one connection whose templates decode, or
\* carry a bad version marker, or have not arrived.
NextFail ==
    \/ StartNext({1}, {"A"}, {TRUE}, 1)
    \/ ReadNext(Templates)
    \/ BatchNext({1}, {MaxBatch}, {MaxBatch})

SpecFail == Init /\ [][NextFail]_vars

\* StartGetWork called by one goroutine, one call after the other, with
\* StopGetWork and the read-loops: the r-th read-loop is the one started for
\* the r-th connection.
NextStopStart ==
    \/ StartNext({1}, {"A"}, {TRUE}, MaxStarts)
    \/ StopNext
    \/ ReadNext(Templates)

SpecStopStart == Init /\ [][NextStopStart]_vars

\* ------------------------------------------------------------ properties
StartersIdle == \A s \in Starters : starters[s].pc = "idle"

\* a call that passed its checks, marked the engine processing and has not returned
InFlight(c) == callers[c].pc \in {"loop", "send", "wait", "hW", "mR", "mW", "ret"}

\* a call that returned a result (no call-level error)
Returned(c) == callers[c].pc = "idle" /\ callers[c].calls > 0 /\ callers[c].err = ""

RECURSIVE TasksInFlight(_)
TasksInFlight(c) == IF c = 0 THEN 0 ELSE Cardinality(Running(c)) + TasksInFlight(c - 1)

RECURSIVE LargestCap(_)
LargestCap(k) ==
    IF k = 0 THEN 0
    ELSE IF sems[k].cap > LargestCap(k - 1) THEN sems[k].cap ELSE LargestCap(k - 1)

\* C1: at every moment the tasks that hold an admission slot (launched, slot
\* not yet given back), over all calls in progress, are at most the worker
\* limit the semaphore was made with (here: the largest capacity any
\* StartGetWork gave a semaphore).
C1_AdmissionBound == TasksInFlight(NumCallers) <= LargestCap(Len(sems))

\* C2: two AttemptHashes calls that ran at the same time on one active
\* connection and both returned: the session totals have grown by the sum of
\* their result.Hashes and by the sum of their result.Submitted.
C2_NoLostUpdates ==
    ( /\ IsActive /\ StartersIdle
      /\ \A c \in {1, 2} : /\ Returned(c)
                            /\ callers[c].kind = "attempt"
                            /\ callers[c].overlap
                            /\ ~callers[c].early )
    => /\ session.Hashes = callers[1].result.Hashes + callers[2].result.Hashes
       /\ session.MiniBlocks = callers[1].result.Submitted + callers[2].result.Submitted

\* C3: GetSession goes on to take its snapshot only when no batch is in
\* flight, and leaves its loop otherwise only with the timeout error.
C3_SessionWaits ==
    [][ /\ (query.pc = "poll" /\ query'.pc = "snap") => \A c \in Callers : ~InFlight(c)
        /\ (query.pc = "poll" /\ query'.pc = "idle")
              => query'.err = "could not get EPOCH session" ]_vars

\* C4: on one active connection (no StartGetWork in progress, the handle
\* unchanged) no step lowers session.Hashes or session.MiniBlocks.
C4_TotalsMonotonic ==
    [][ (IsActive /\ ws' = ws /\ StartersIdle /\ starters' = starters)
        => /\ session'.Hashes >= session.Hashes
           /\ session'.MiniBlocks >= session.MiniBlocks ]_vars

\* C5: StartGetWork has reset the totals for the connection it established,
\* and they count only the work of batches run on that connection: while no
\* batch was admitted on the active connection, both totals are zero.
C5_TotalsOfThisConnection ==
    (IsActive /\ StartersIdle /\ \A c \in Callers : callers[c].conn # ws)
    => session = [Hashes |-> 0, MiniBlocks |-> 0]

\* C6: the step that compares a request with the ceiling, for a request above
\* it, ends the call with an error; no task is launched, no slot taken, the
\* processing flag and both session totals stay as they were.
C6_OverCeilingRejected ==
    [][ \A c \in Callers :
          /\ (callers[c].pc = "idle" /\ callers'[c].pc = "max")
             => /\ tasks'[c] = <<>>
                /\ UNCHANGED << sems, processing, session >>
          /\ (callers[c].pc = "max" /\ callers'[c].pc # "max" /\ callers[c].n > maxHashes)
             => /\ callers'[c].pc = "idle"
                /\ callers'[c].err # ""
                /\ callers'[c].result = NoResult
                /\ tasks'[c] = <<>>
                /\ UNCHANGED << sems, processing, session >> ]_vars

C6_Witness ==
    \E c \in Callers : /\ callers[c].pc = "idle"
                       /\ callers[c].err = "exceeds maxHashes"
                       /\ callers[c].n > maxHashes
                       /\ ~processing

\* C7: while the handle is nil, AttemptHashes, SubmitHashes, GetMaxHashesEPOCH,
\* GetAddressEPOCH, GetSessionEPOCH and submitBlock each end with an error, and
\* the step changes neither session total nor the processing flag.
C7_InactiveRejected ==
    [][ ws = 0 =>
        /\ \A c \in Callers :
              (callers[c].pc = "idle" /\ callers'[c].calls = callers[c].calls + 1)
              => /\ callers'[c].pc = "idle"
                 /\ callers'[c].err = "epoch is not active"
                 /\ tasks'[c] = <<>>
                 /\ UNCHANGED << session, processing >>
        /\ ( /\ query.pc = "idle"
             /\ query' # query
             /\ query'.op \in {"GetMaxHashesEPOCH", "GetAddressEPOCH", "GetSessionEPOCH"} )
              => /\ query'.pc = "idle"
                 /\ query'.err = "epoch is not active"
                 /\ UNCHANGED << session, processing >>
        /\ \A c \in Callers : \A k \in DOMAIN tasks[c] :
              (tasks[c][k].pc = "submit" /\ tasks'[c][k].pc # "submit")
              => /\ tasks'[c][k].pc = "rel"
                 /\ ~tasks'[c][k].valid
                 /\ callers'[c].result.Error = << "connection is closed", k >>
                 /\ UNCHANGED << session, processing >> ]_vars

C7_Witness ==
    /\ ws = 0
    /\ query.op = "GetSessionEPOCH" /\ query.err = "epoch is not active"
    /\ \E c \in Callers : /\ callers[c].kind = "submit" /\ callers[c].n = 0
                          /\ callers[c].err = "epoch is not active"

\* C8: an AttemptHashes(n) call that passed the ceiling check and ran with no
\* other batch, at its return: tasks launched <= n, result.Hashes <= n,
\* result.Hashes = tasks launched (= n when no task reported an error), and the
\* session totals are those the call found plus result.Hashes, result.Submitted.
C8_SingleBatch ==
    [][ \A c \in Callers :
          ( /\ callers[c].pc = "ret" /\ callers'[c].pc = "idle"
            /\ callers[c].kind = "attempt" /\ ~callers[c].overlap )
          => LET r == callers'[c].result
                 n == callers[c].n
             IN  /\ Len(tasks[c]) <= n
                 /\ r.Hashes <= n
                 /\ r.Hashes = Len(tasks[c])
                 /\ (r.Error = NoErr => r.Hashes = n)
                 /\ session'.Hashes = callers[c].sess0[1] + r.Hashes
                 /\ session'.MiniBlocks = callers[c].sess0[2] + r.Submitted ]_vars

\* the connections dialed and not closed, and the read-loops blocked in a read
\* on one of them
OpenConns == {c \in 1..conns : c \notin closed}
Reading == {r \in DOMAIN readers : readers[r].pc = "recv" /\ readers[r].rc \in OpenConns}

\* C9: at most one connection is open and at most one read-loop reads, however
\* StartGetWork calls interleave.
C9_OneConnection == Cardinality(OpenConns) <= 1 /\ Cardinality(Reading) <= 1

\* C10: the step that ends a StartGetWork call in failure (host, address
\* argument, configured address, dial) installs no handle: the engine is not
\* made active, no read-loop is started, the session totals and the semaphore
\* stay as they were; after a failed dial the handle is nil.
C10_FailedStartInert ==
    [][ \A s \in Starters :
          ( /\ starters[s].pc \in {"validate", "dial"}
            /\ starters'[s].pc = "idle" /\ starters'[s].err # "" )
          => /\ ws' # 0 => ws' = ws
             /\ starters[s].pc = "dial" => ws' = 0
             /\ UNCHANGED << readers, session, semaphore, sems >> ]_vars

C10_Witness ==
    /\ ~IsActive
    /\ readers = <<>>
    /\ \E s \in Starters : starters[s].pc = "idle" /\ starters[s].err = "dial"
    /\ \E s \in Starters : starters[s].pc = "idle" /\ starters[s].err = "address is not valid"

\* C11: StopGetWork on an active engine closes the connection the handle
\* names and clears the handle, so that IsActive() is false when it returns;
\* on an inactive engine (in particular right after another StopGetWork) it
\* changes nothing.
C11_StopIdempotent ==
    [][ /\ (stopper.pc = "idle" /\ nStops' = nStops + 1 /\ ~IsActive)
           => UNCHANGED << connVars, wlock, job, cfgVars, processing, semVars, session,
                           startVars, stopper, readers, batchVars, query, panicked >>
        /\ (stopper.pc = "idle" /\ nStops' = nStops + 1 /\ IsActive)
           => stopper'.pc = "close" /\ UNCHANGED connVars
        /\ (stopper.pc = "close" /\ stopper'.pc = "clear")
           => closed' = closed \cup {ws} /\ ws' = ws
        /\ (stopper.pc = "clear" /\ stopper'.pc = "idle")
           => ws' = 0 /\ UNCHANGED << conns, closed >> ]_vars

C11_Witness ==
    /\ nStops = 2
    /\ stopper.pc = "idle"
    /\ ~IsActive
    /\ conns = 1 /\ closed = {1}
    /\ StartersIdle

\* C12: a read-loop whose read failed leaves its loop and the engine becomes
\* inactive: either the handle is already nil when the deferred StopGetWork
\* looks at it, or the teardown it begins ends with the handle nil.  Only the
\* dial of a StartGetWork call makes an inactive engine active again.  A
\* template stored with a non-empty last-error does not end the loop.
C12_ReadFailStops ==
    /\ [][ /\ \A r \in DOMAIN readers :
                (readers[r].pc = "recv" /\ readers'[r].pc \notin {"recv", "eval"})
                => \/ readers'[r].pc = "done" /\ ~IsActive
                   \/ readers'[r].pc = "close" /\ IsActive
           /\ (~IsActive /\ IsActive')
                => \E s \in Starters : starters[s].pc = "dial" /\ starters'[s].pc = "reset"
           /\ (job' # job /\ job'.LastError # "")
                => \A r \in DOMAIN readers :
                      \/ readers'[r] = readers[r]
                      \/ readers[r].pc = "recv" /\ readers'[r].pc = "eval" ]_vars
    /\ \A r \in 1..MaxConns :
          (r \in DOMAIN readers /\ readers[r].pc \in {"close", "clear"}) ~> ~IsActive

C12_Witness ==
    /\ ~IsActive
    /\ ~panicked
    /\ StartersIdle
    /\ job.LastError # ""
    /\ \E r \in DOMAIN readers : readers[r].pc = "done"

\* C13: when the read-loop stores a template (newJob), getJob returns that
\* template, every field equal, whatever was stored before; and the stored
\* template changes in no other step, so an older template never comes back.
C13_JobRoundTrip ==
    [][ /\ \A r \in DOMAIN readers :
             (readers[r].pc = "recv" /\ readers'[r].pc = "eval")
             => getJob' = readers'[r].result
        /\ (job' # job)
             => \E r \in DOMAIN readers :
                   /\ readers[r].pc = "recv" /\ readers'[r].pc = "eval"
                   /\ job' = readers'[r].result ]_vars

C13_Witness ==
    \E r \in DOMAIN readers :
        /\ readers[r].pc = "eval"
        /\ readers[r].result.JobID = "j2"
        /\ getJob = readers[r].result
        /\ \E q \in DOMAIN readers : readers[q].result = GoodJob

\* C14: from the moment wg.Wait() returned until the call is made again,
\* every task the call launched has finished: it has received a slot back and
\* called wg.Done().  In particular no task is running when the call returns.
\* A task that has not finished is never dropped or restarted.
C14_NoTaskOutlivesCall ==
    /\ [](\A c \in Callers :
            callers[c].pc \in {"idle", "hW", "mR", "mW", "ret"} => Running(c) = {})
    /\ [][ \A c \in Callers : \A k \in DOMAIN tasks[c] :
             /\ k \in DOMAIN tasks'[c] \/ tasks[c][k].pc = "done"
             /\ (callers[c].pc = "ret" /\ callers'[c].pc = "idle")
                => /\ tasks[c][k].pc = "done"
                   /\ tasks'[c] = tasks[c] ]_vars

C14_Witness ==
    \E c \in Callers :
        /\ callers[c].pc = "idle" /\ callers[c].calls > 0 /\ callers[c].err = ""
        /\ Len(tasks[c]) = MaxBatch
        /\ \A k \in DOMAIN tasks[c] : tasks[c][k].pc = "done"
        /\ callers[c].result.Hashes = MaxBatch

\* C15: a SubmitHashes call that passed its checks and in which no task
\* reported an error returns result.Hashes = len(params); with an empty list
\* it returns Hashes = 0 and Submitted = 0.
C15_SubmitCountsAll ==
    [][ \A c \in Callers :
          ( /\ callers[c].pc = "ret" /\ callers'[c].pc = "idle"
            /\ callers[c].kind = "submit"
            /\ callers[c].result.Error = NoErr )
          => /\ callers'[c].result.Hashes = callers[c].n
             /\ callers[c].n = 0 => callers'[c].result.Submitted = 0 ]_vars

\* C16: no step of a SubmitHashes call (of the call or of its tasks) changes
\* session.Hashes, and the call's one write to the session raises
\* session.MiniBlocks by exactly its result.Submitted.
C16_SubmitFrame ==
    [][ \A c \in Callers :
          callers[c].kind = "submit"
          => /\ (callers[c].pc # "idle" /\ (callers'[c] # callers[c] \/ tasks'[c] # tasks[c]))
                => session'.Hashes = session.Hashes
             /\ (callers[c].pc = "mW" /\ callers'[c].pc = "ret")
                => session'.MiniBlocks = session.MiniBlocks + callers[c].result.Submitted ]_vars

\* C17: a configuration call with an invalid argument (SetPort outside
\* 1..65535, SetMaxHashes above LIMIT_MAX_HASHES, SetAddress with an address
\* that fails validation) returns an error and changes no field of the engine;
\* with a valid argument it returns no error, changes only its own field, and
\* the matching getter then returns the argument (GetPort: its decimal form).
C17_ConfigErrorsInert ==
    [][ (nCfg' = nCfg + 1 /\ cfg'.op \in {"SetPort", "SetMaxHashes", "SetAddress"})
        => /\ UNCHANGED << connVars, wlock, job, maxThreads, processing, semVars, session,
                           startVars, stopVars, readers, batchVars, query, panicked >>
           /\ cfg'.op = "SetPort"
              => /\ UNCHANGED << address, maxHashes >>
                 /\ IF cfg'.arg < 1 \/ cfg'.arg > MaxPort
                    THEN cfg'.err # "" /\ port' = port
                    ELSE cfg'.err = "" /\ GetPort' = Itoa(cfg'.arg)
           /\ cfg'.op = "SetMaxHashes"
              => /\ UNCHANGED << address, port >>
                 /\ IF cfg'.arg > LIMIT_MAX_HASHES
                    THEN cfg'.err # "" /\ maxHashes' = maxHashes
                    ELSE cfg'.err = "" /\ GetMaxHashes' = cfg'.arg
           /\ cfg'.op = "SetAddress"
              => /\ UNCHANGED << maxHashes, port >>
                 /\ IF ~ValidAddress(cfg'.arg)
                    THEN cfg'.err # "" /\ address' = address
                    ELSE cfg'.err = "" /\ GetAddress' = cfg'.arg ]_vars

\* SetPort(65536) was refused while the connection was active and the port is
\* the default one
C17_Witness ==
    /\ cfg.op = "SetPort" /\ cfg.arg = MaxPort + 1 /\ cfg.err # ""
    /\ GetPort = Itoa(DEFAULT_WORK_PORT)
    /\ IsActive

\* C18: after SetMaxThreads(i), GetMaxThreads() is i when 1 <= i <= NumCPU,
\* 1 when i < 1 and NumCPU when i > NumCPU.
C18_ThreadsClamped ==
    [][ (nCfg' = nCfg + 1 /\ cfg'.op = "SetMaxThreads")
        => GetMaxThreads' = (IF cfg'.arg < 1 THEN 1
                             ELSE IF cfg'.arg > NumCPU THEN NumCPU
                             ELSE cfg'.arg) ]_vars

\* SetMaxThreads(-1) left the limit at 1
C18_Witness == cfg.op = "SetMaxThreads" /\ cfg.arg = -1 /\ GetMaxThreads = 1

\* C19: once the connection is stopped (StopGetWork or the read-loop's
\* teardown has run to its end and no StartGetWork is under way) the Job Store
\* holds no template, and at the moment a later StartGetWork has established
\* its connection getJob returns no template of the connection before.
C19_JobDiscardedOnStop ==
    /\ [](( /\ ~IsActive /\ StartersIdle /\ stopper.pc = "idle"
            /\ \A r \in DOMAIN readers : readers[r].pc = "done" )
          => getJob = ZeroJob)
    /\ [][ \A s \in Starters :
             (starters[s].pc = "sem" /\ starters'[s].pc = "idle") => getJob' = ZeroJob ]_vars

\* C20: a batch changes the session totals (the stores of lines 443, 444 and
\* 505) only while the connection it began on is still the active one.
C20_TotalsOnlyWhileActive ==
    [][ \A c \in Callers :
          ( /\ \/ callers[c].pc = "hW" /\ callers'[c].pc = "mR"
               \/ callers[c].pc = "mW" /\ callers'[c].pc = "ret"
            /\ session' # session )
          => IsActive /\ callers[c].conn = ws ]_vars

\* C21: within one batch the dispatcher launches a task only while no task of
\* that batch has recorded an error in result.Error, and a task that was
\* launched is never dropped before it has finished.
C21_NoLaunchAfterError ==
    [][ \A c \in Callers :
          /\ (callers[c].pc = "send" /\ Len(tasks'[c]) = Len(tasks[c]) + 1)
             => callers[c].result.Error = NoErr
          /\ \A k \in DOMAIN tasks[c] :
               k \in DOMAIN tasks'[c] \/ tasks[c][k].pc = "done" ]_vars

\* C22: every task that was launched and has not exited holds one slot of the
\* channel its slot was sent on (each channel's occupied slots are exactly its
\* unfinished tasks), a task gives its slot back to that same channel, and
\* whenever no batch is in flight the semaphore has no occupied slot.
C22_SlotAccounting ==
    /\ [](\A ch \in DOMAIN sems :
            sems[ch].cnt = Cardinality({ck \in Callers \X (1..MaxBatch) :
                                          /\ ck[2] \in DOMAIN tasks[ck[1]]
                                          /\ tasks[ck[1]][ck[2]].pc # "done"
                                          /\ tasks[ck[1]][ck[2]].sem = ch}))
    /\ [][ \A c \in Callers : \A k \in DOMAIN tasks[c] :
             (tasks[c][k].pc = "recv" /\ tasks'[c][k].pc = "done")
             => /\ tasks[c][k].ch = tasks[c][k].sem
                /\ sems'[tasks[c][k].sem].cnt = sems[tasks[c][k].sem].cnt - 1 ]_vars
    /\ []((\A c \in Callers : ~InFlight(c))
          => (semaphore = 0 \/ sems[semaphore].cnt = 0))

\* C23: at no time are two tasks inside the upstream write (between the Lock of
\* line 373 and the deferred Unlock), whatever batch they belong to; a task
\* enters the write only after it found the connection active and its local
\* target comparison passed, and a task whose comparison failed or that found
\* the connection inactive never writes and ends with valid = false.
C23_ExclusiveWrites ==
    /\ [](Cardinality({ck \in Callers \X (1..MaxBatch) :
                         /\ ck[2] \in DOMAIN tasks[ck[1]]
                         /\ tasks[ck[1]][ck[2]].pc = "write"}) <= 1)
    /\ [](\A c \in Callers : \A k \in DOMAIN tasks[c] :
            /\ tasks[c][k].pc \in {"lock", "write"} => tasks[c][k].pass
            /\ tasks[c][k].valid => tasks[c][k].pass)
    /\ [][ \A c \in Callers : \A k \in DOMAIN tasks[c] :
             /\ (tasks[c][k].pc = "submit" /\ tasks'[c][k].pc = "lock") => IsActive
             /\ (tasks[c][k].pc = "submit" /\ ~IsActive /\ tasks'[c][k] # tasks[c][k])
                => tasks'[c][k].pc = "rel" /\ ~tasks'[c][k].pass
             /\ (k \in DOMAIN tasks'[c] /\ tasks'[c][k].valid /\ ~tasks[c][k].valid)
                => tasks[c][k].pc = "write" /\ wlock = <<c, k>> /\ ws # 0 /\ ws \notin closed ]_vars

\* one task of each of two batches has passed its comparison: one is inside
\* the write, the other waits for the lock
C23_Witness ==
    /\ tasks[1] # <<>> /\ tasks[1][1].pc = "write"
    /\ tasks[2] # <<>> /\ tasks[2][1].pc = "lock"

\* C24: when a batch returns its result, result.Submitted is the number of the
\* batch's tasks whose submission was valid.
C24_SubmittedCountsValid ==
    [][ \A c \in Callers :
          (callers[c].pc = "ret" /\ callers'[c].pc = "idle")
          => callers'[c].result.Submitted =
                Cardinality({k \in DOMAIN tasks[c] : tasks[c][k].valid}) ]_vars

C27_FirstErrorKept ==
    [][ \A c \in Callers :
          (callers[c].pc # "idle" /\ callers'[c].pc # "idle" /\ callers[c].result.Error # NoErr)
          => callers'[c].result.Error = callers[c].result.Error ]_vars

\* C26: IsProcessing() is true in every state in which some call has marked
\* the engine processing and has not returned, and false in every state in
\* which no call is in flight.
C26_ProcessingIffInFlight == IsProcessing = (\E c \in Callers : InFlight(c))

\* C28: the deferred stop of the read-loop started for connection r closes no
\* connection but r, and clears the handle only while it still is r: a
\* connection started after r stays open and active.
C28_OwnTeardownOnly ==
    [][ \A r \in DOMAIN readers :
          /\ (readers[r].pc = "close" /\ readers'[r].pc = "clear")
             => closed' \subseteq closed \cup {r}
          /\ (readers[r].pc = "clear" /\ readers'[r].pc = "done")
             => (ws # r => ws' = ws) ]_vars

\* C29: every batch that passed its checks and marked the engine processing
\* eventually returns (unless the process has crashed), also when the
\* connection is torn down and started again during the batch.
C29_BatchReturns ==
    \A c \in Callers : InFlight(c) ~> (callers[c].pc = "idle" \/ panicked)

\* C30: whenever IsActive() is true, the StartGetWork that dialed the
\* connection has already reset the session totals and made the semaphore
\* for it; so a call admitted on the active connection sends on that
\* connection's own channel (never on nil, never on the one of the connection
\* before), and the reset never runs while a call admitted on the same
\* connection is under way.
C30_ActiveOnlyInitialised ==
    /\ [](IsActive => \A s \in Starters : starters[s].pc \notin {"reset", "sem"})
    /\ [][ \A c \in Callers :
             /\ ( /\ callers[c].pc = "loop" /\ callers'[c].pc = "send"
                  /\ IsActive /\ callers[c].conn = ws )
                => callers'[c].ch = ws
             /\ ( /\ \E s \in Starters : starters[s].pc = "reset" /\ starters'[s].pc = "sem"
                  /\ callers[c].pc # "idle" )
                => callers[c].conn # ws ]_vars

\* C31: no operation dereferences a cleared handle (the write of a task, the
\* close of StopGetWork and the read of the read-loop always find
\* epoch.conn.ws set, so the process never panics on it), and no connection
\* is closed a second time.
C31_HandleNeverNil ==
    /\ [](~panicked)
    /\ [][ ( \/ stopper.pc = "close" /\ stopper'.pc = "clear"
             \/ \E r \in DOMAIN readers : readers[r].pc = "close" /\ readers'[r].pc = "clear" )
           => ws \notin closed ]_vars

====
